---- MODULE Spec2Model ----
(***************************************************************************)
(* State-machine model of the DEX escrow service of RevShare               *)
(* (src/unnamed/part_010, DEXEscrowService) together with the part of the  *)
(* payment service that confirms investments (src/unnamed/part_009).       *)
(*                                                                         *)
(* Every service method is a sequence of steps of one caller (a process):  *)
(* the reads the method does before it opens its database transaction are  *)
(* one step, the transaction is another.  A prisma.$transaction whose      *)
(* statements are blind writes (create, increment, decrement, set) commits *)
(* as one atomic step; a transaction that reads a row and later writes a   *)
(* value computed from it (the wallet in processClaim) is two steps, as    *)
(* the default isolation level is READ COMMITTED.                          *)
(*                                                                         *)
(* Money and percentages are JavaScript numbers in the source.  The model  *)
(* computes them as exact rationals <<numerator, denominator>>; the        *)
(* rounding of IEEE-754 doubles is not modelled.  A division by zero       *)
(* (Infinity, NaN) is modelled by the flag "finite" of the snapshot.       *)
(***************************************************************************)
EXTENDS Integers, Sequences, FiniteSets, TLC

(***************************************************************************)
(* Bounds of the model.                                                    *)
(***************************************************************************)
\* Spec: one caller, the whole life cycle of a deposit and its claims.
MaxDeposits == 1
MaxDistributions == 1
MaxInvestments == 1
MaxTicks == 2
\* SpecOwnership: one caller, several investments and distributions, no clock.
OwnMaxDeposits == 1
OwnMaxDistributions == 2
OwnMaxInvestments == 2
\* SpecConc: two concurrent callers.
ConcMaxDeposits == 1
ConcMaxDistributions == 2
\* SpecVault: two concurrent callers of the vault methods.
VaultMaxDeposits == 2
\* SpecClaims: one caller, a user with several claims, no clock.
ClaimsMaxDeposits == 1
ClaimsMaxDistributions == 2
ClaimsMaxInvestments == 1
\* SpecExpiry: two concurrent callers of processClaim and expireOldClaims,
\* with the clock.
ExpMaxDeposits == 1
ExpMaxDistributions == 2
ExpMaxTicks == 2
\* SpecClaimAll: a caller of claimAll next to a caller of processClaim.
AllMaxDeposits == 1
AllMaxDistributions == 2
AllMaxTicks == 2
CrossMaxDeposits == 2
CrossMaxDistributions == 1
AuditMaxDeposits == 1
AuditMaxDistributions == 1
MaxLimit == 2
MaxOffset == 1
\* The largest number of shares one payment buys.
MaxBuyShares == 2

(***************************************************************************)
(* Program constants.                                                      *)
(***************************************************************************)
PLATFORM_FEE_PERCENT == 5
CLAIM_EXPIRY_DAYS == 90

(***************************************************************************)
(* The world the service runs in.                                          *)
(***************************************************************************)
Procs == {1, 2}
Offerings == {"o1", "o2"}
Creator == "c"
Investors == {"i1", "i2"}
Users == {Creator} \cup Investors
Amounts == {0, 100}
TotalShares == 4
SharePercentages == {20, 50}
\* ESCROW_SECRET_KEY of the process environment: "" when it is not set
SecretKeys == {"", "k1"}
\* The clock advances by one claim window at a time: a claim made at the
\* start of a window meets a clock equal to its expiresAt, then one beyond.
ClockStep == CLAIM_EXPIRY_DAYS

(***************************************************************************)
(* Exact rational arithmetic: <<n, d>> with d > 0 and gcd(|n|, d) = 1.     *)
(***************************************************************************)
Abs(x) == IF x < 0 THEN -x ELSE x

RECURSIVE GCD(_, _)
GCD(a, b) == IF b = 0 THEN a ELSE GCD(b, a % b)

Norm(n, d) ==
    LET s == IF d < 0 THEN -1 ELSE 1
        g == GCD(Abs(n), Abs(d))
    IN  <<(s * n) \div g, (s * d) \div g>>

R(n) == <<n, 1>>
Zero == R(0)
RAdd(a, b) == Norm(a[1] * b[2] + b[1] * a[2], a[2] * b[2])
RSub(a, b) == Norm(a[1] * b[2] - b[1] * a[2], a[2] * b[2])
RMul(a, b) == Norm(a[1] * b[1], a[2] * b[2])
RDiv(a, b) == Norm(a[1] * b[2], a[2] * b[1])
RLt(a, b) == a[1] * b[2] < b[1] * a[2]
RLe(a, b) == a[1] * b[2] <= b[1] * a[2]
RPos(a) == a[1] > 0

RECURSIVE RSum(_)
RSum(s) == IF s = <<>> THEN Zero ELSE RAdd(s[1], RSum(Tail(s)))

(***************************************************************************)
(* State.                                                                  *)
(***************************************************************************)
VARIABLES
    env,            \* process.env: [ESCROW_SECRET_KEY |-> the configured key]
    now,            \* the clock (days)
    offerings,      \* [Offerings -> [availableShares, sharePercentage]]
    investments,    \* sequence of [offeringId, investorId, shares, status]
    vaults,         \* [Offerings -> [exists, totalBalance, ...]], keyed by offeringId
    deposits,       \* sequence of EscrowDeposit rows; the id is the index
    distributions,  \* sequence of EscrowDistribution rows
    claims,         \* sequence of EscrowClaim rows
    wallets,        \* [Users -> [exists, balance, totalEarnings]]
    ledger,         \* sequence of Transaction + WalletLedger rows
    audit,          \* sequence of EscrowAuditLog rows, in commit order
    payments,       \* confirmPayment calls between their two writes
    pc,             \* [Procs -> position of the caller in its method]
    loc             \* [Procs -> the method's arguments, locals and result]

vars == <<env, now, offerings, investments, vaults, deposits, distributions, claims,
          wallets, ledger, audit, payments, pc, loc>>

dbVars == <<offerings, investments, vaults, deposits, distributions, claims,
            wallets, ledger, audit>>

NoVault ==
    [exists |-> FALSE, totalBalance |-> Zero, pendingRelease |-> Zero,
     totalDistributed |-> Zero, creatorShare |-> Zero, investorPool |-> Zero,
     status |-> "NONE"]

NewVault ==
    [exists |-> TRUE, totalBalance |-> Zero, pendingRelease |-> Zero,
     totalDistributed |-> Zero, creatorShare |-> Zero, investorPool |-> Zero,
     status |-> "ACTIVE"]

NoWallet == [exists |-> FALSE, balance |-> Zero, totalEarnings |-> Zero]

IdleLoc == [op |-> "none"]

\* process.env.ESCROW_SECRET_KEY || 'escrow-secret'
HmacKey(e) ==
    IF e.ESCROW_SECRET_KEY # "" THEN e.ESCROW_SECRET_KEY ELSE "escrow-secret"

\* HMAC-SHA256 of the payload under the key, kept symbolic: the key and the
\* payload the digest is computed from.
generateSignature(data) == [key |-> HmacKey(env), payload |-> data]

AuditEntry(vaultId, action, actorType, actorId, amount, ref) ==
    [vaultId |-> vaultId, action |-> action, actorType |-> actorType,
     actorId |-> actorId, amount |-> amount, ref |-> ref,
     signature |-> generateSignature([ref |-> ref, amount |-> amount])]

\* A write that keeps only the latest entry of the trail in place.
AuditLogReplaceLast(log, entry) ==
    IF log = <<>> THEN <<entry>> ELSE [log EXCEPT ![Len(log)] = entry]

\* tx.escrowAuditLog.create: the only write to the audit trail
AuditLogCreate(log, entry) == Append(log, entry)

\* A wallet opened for the user at sign-up, before any claim is paid.
EmptyWallet == [exists |-> TRUE, balance |-> Zero, totalEarnings |-> Zero]

InitEnv(sharePercentages, secretKeys, walletOwners) ==
    /\ \E k \in secretKeys : env = [ESCROW_SECRET_KEY |-> k]
    /\ now = 0
    /\ \E sp \in sharePercentages :
         offerings = [o \in Offerings |->
                        [availableShares |-> TotalShares, sharePercentage |-> sp]]
    /\ investments = <<>>
    /\ vaults = [o \in Offerings |-> NoVault]
    /\ deposits = <<>>
    /\ distributions = <<>>
    /\ claims = <<>>
    /\ wallets = [u \in Users |->
                    IF u \in walletOwners THEN EmptyWallet ELSE NoWallet]
    /\ ledger = <<>>
    /\ audit = <<>>
    /\ payments = <<>>
    /\ pc = [p \in Procs |-> "idle"]
    /\ loc = [p \in Procs |-> IdleLoc]

\* the deployments with a configured key, before any user has a wallet
InitWith(sharePercentages) ==
    InitEnv(sharePercentages, SecretKeys \ {""}, {})

Init == InitWith(SharePercentages)

\* The claimAll branch of the claims route calls processClaim in a loop:
\* while the caller is inside such a call, "outer" holds the locals of the
\* route (at the call itself they are the caller's locals).
InRoute(p) == loc[p].op = "claimAll" \/ "outer" \in DOMAIN loc[p]
RouteFrame(p) == IF loc[p].op = "claimAll" THEN loc[p] ELSE loc[p].outer

\* The caller p finishes its method with a result and waits in "done"; a
\* method called by the route returns (or throws) into the route.
Finish(p, result) ==
    IF InRoute(p)
    THEN /\ pc' = [pc EXCEPT ![p] = "ca_ret"]
         /\ loc' = [loc EXCEPT ![p] = [RouteFrame(p) EXCEPT !.ret = result]]
    ELSE /\ pc' = [pc EXCEPT ![p] = "done"]
         /\ loc' = [loc EXCEPT ![p] = result]

Goto(p, label, locals) ==
    /\ pc' = [pc EXCEPT ![p] = label]
    /\ loc' = [loc EXCEPT ![p] =
                  IF InRoute(p) THEN locals @@ [outer |-> RouteFrame(p)]
                  ELSE locals]

Fail(op, err) == [op |-> op, ok |-> FALSE, err |-> err]

\* The caller takes its result and is free for the next call.
Return(p) ==
    /\ pc[p] = "done"
    /\ pc' = [pc EXCEPT ![p] = "idle"]
    /\ loc' = [loc EXCEPT ![p] = IdleLoc]
    /\ UNCHANGED <<env, now, dbVars, payments>>

\* The service reads the clock only to stamp and to judge claims: before the
\* first claim exists a tick would only shift every later timestamp.
Tick(maxTicks) ==
    /\ claims # <<>>
    /\ now < maxTicks * ClockStep
    /\ now' = now + ClockStep
    /\ UNCHANGED <<env, dbVars, payments, pc, loc>>

(***************************************************************************)
(* createVault (part_010:71-123).  Every modelled offering exists, so the  *)
(* 'Offering not found' branch is not taken.                               *)
(***************************************************************************)
CreateVaultCheck(p, o) ==
    /\ pc[p] = "idle"
    /\ IF vaults[o].exists
       THEN Finish(p, [op |-> "createVault", ok |-> TRUE, err |-> "", o |-> o])
       ELSE Goto(p, "cv_tx", [op |-> "createVault", o |-> o])
    /\ UNCHANGED <<env, now, dbVars, payments>>

\* The transaction: offeringId is unique, so a second insert is rejected
\* and the transaction rolls back.
CreateVaultTx(p) ==
    /\ pc[p] = "cv_tx"
    /\ LET o == loc[p].o IN
       IF vaults[o].exists
       THEN /\ Finish(p, Fail("createVault", "unique_constraint") @@ [o |-> o])
            /\ UNCHANGED <<vaults, audit>>
       ELSE /\ vaults' = [vaults EXCEPT ![o] = NewVault]
            /\ audit' = AuditLogCreate(audit,
                   AuditEntry(o, "VAULT_CREATED", "SYSTEM", "", Zero, 0))
            /\ Finish(p, [op |-> "createVault", ok |-> TRUE, err |-> "", o |-> o])
    /\ UNCHANGED <<env, now, offerings, investments, deposits, distributions, claims,
                   wallets, ledger, payments>>

(***************************************************************************)
(* depositRevenue (part_010:182-252).  source, externalRef and             *)
(* revenueMonth are stored and never read by the service.                  *)
(***************************************************************************)
\* A check that lets a deposit of nothing through.
AmountRejectedNegativeOnly(amount) == amount < 0

\* if (amount <= 0) throw
AmountRejected(amount) == amount <= 0

DepositCheck(p, o, amount, maxDeposits) ==
    /\ pc[p] = "idle"
    /\ LET v == vaults[o] IN
       IF ~v.exists
       THEN Finish(p, Fail("depositRevenue", "vault_not_found") @@ [o |-> o])
       ELSE IF v.status # "ACTIVE"
       THEN Finish(p, Fail("depositRevenue", "vault_not_active") @@ [o |-> o])
       ELSE IF AmountRejected(amount)
       THEN Finish(p, Fail("depositRevenue", "amount_not_positive") @@ [o |-> o])
       ELSE /\ Len(deposits) < maxDeposits
            /\ Goto(p, "dp_tx", [op |-> "depositRevenue", o |-> o,
                                 amount |-> R(amount),
                                 seenTotal |-> v.totalBalance])
    /\ UNCHANGED <<env, now, dbVars, payments>>

\* A vault update that forgets pendingRelease.
DepositedTotalOnly(vault, amount) ==
    [vault EXCEPT !.totalBalance = RAdd(@, amount)]

\* totalBalance: { increment: amount }, pendingRelease: { increment: amount }
Deposited(vault, amount) ==
    [vault EXCEPT !.totalBalance = RAdd(@, amount),
                  !.pendingRelease = RAdd(@, amount)]

DepositTx(p) ==
    /\ pc[p] = "dp_tx"
    /\ LET o == loc[p].o
           amount == loc[p].amount
           id == Len(deposits) + 1
       IN
       /\ deposits' = Append(deposits,
              [vaultId |-> o, amount |-> amount, status |-> "PENDING"])
       /\ vaults' = [vaults EXCEPT ![o] = Deposited(@, amount)]
       /\ audit' = AuditLogCreate(audit,
              AuditEntry(o, "DEPOSIT_RECEIVED", "SYSTEM", "", amount, id)
                @@ [previousTotal |-> loc[p].seenTotal,
                    newTotal |-> RAdd(loc[p].seenTotal, amount)])
       /\ Finish(p, [op |-> "depositRevenue", ok |-> TRUE, err |-> "",
                     o |-> o, d |-> id])
    /\ UNCHANGED <<env, now, offerings, investments, distributions, claims,
                   wallets, ledger, payments>>

(***************************************************************************)
(* verifyDeposit (part_010:257-290).                                       *)
(***************************************************************************)
\* A check that only refuses a deposit that was distributed.
NotPendingDistributedOnly(deposit) == deposit.status = "DISTRIBUTED"

\* if (deposit.status !== 'PENDING') throw
NotPending(deposit) == deposit.status # "PENDING"

VerifyCheck(p, d) ==
    /\ pc[p] = "idle"
    /\ IF d \notin DOMAIN deposits
       THEN Finish(p, Fail("verifyDeposit", "deposit_not_found") @@ [d |-> d])
       ELSE IF NotPending(deposits[d])
       THEN Finish(p, Fail("verifyDeposit", "deposit_not_pending") @@ [d |-> d])
       ELSE Goto(p, "vd_tx", [op |-> "verifyDeposit", d |-> d,
                              vaultId |-> deposits[d].vaultId,
                              amount |-> deposits[d].amount])
    /\ UNCHANGED <<env, now, dbVars, payments>>

VerifyTx(p) ==
    /\ pc[p] = "vd_tx"
    /\ LET d == loc[p].d IN
       /\ deposits' = [deposits EXCEPT ![d].status = "VERIFIED"]
       /\ audit' = AuditLogCreate(audit,
              AuditEntry(loc[p].vaultId, "DEPOSIT_VERIFIED", "SYSTEM", "",
                         loc[p].amount, d))
       /\ Finish(p, [op |-> "verifyDeposit", ok |-> TRUE, err |-> "", d |-> d])
    /\ UNCHANGED <<env, now, offerings, investments, vaults, distributions, claims,
                   wallets, ledger, payments>>

(***************************************************************************)
(* getOwnershipSnapshot (part_010:129-176).                                *)
(***************************************************************************)
SoldShares(o) == TotalShares - offerings[o].availableShares

ConfirmedInvestments(o) ==
    LET IsConfirmed(i) == i.offeringId = o /\ i.status = "CONFIRMED"
    IN  SelectSeq(investments, IsConfirmed)

\* A snapshot that divides by the offering's shares, not by the sold ones.
InvestorPercentOfTotal(shares, soldShares, sharePercentage) ==
    RMul(RDiv(R(shares), R(TotalShares)), R(sharePercentage))

\* investment.shares / soldShares * offering.sharePercentage
InvestorPercent(shares, soldShares, sharePercentage) ==
    RMul(RDiv(R(shares), R(soldShares)), R(sharePercentage))

\* 100 - totalInvestorPercent
CreatorPercent(investorPercents) ==
    RSub(R(100), RSum(investorPercents))

getOwnershipSnapshot(o) ==
    LET soldShares == SoldShares(o)
        invs == ConfirmedInvestments(o)
        \* x / 0 is Infinity or NaN in JavaScript
        finite == soldShares # 0 \/ invs = <<>>
        investors ==
            [k \in DOMAIN invs |->
                [userId |-> invs[k].investorId,
                 shares |-> invs[k].shares,
                 ownershipPercent |->
                    IF finite
                    THEN InvestorPercent(invs[k].shares, soldShares,
                                         offerings[o].sharePercentage)
                    ELSE Zero]]
        percents == [k \in DOMAIN investors |-> investors[k].ownershipPercent]
    IN  [creator |-> [userId |-> Creator,
                      ownershipPercent |-> CreatorPercent(percents)],
         investors |-> investors,
         totalShares |-> TotalShares,
         soldShares |-> soldShares,
         finite |-> finite]

(***************************************************************************)
(* distributeRevenue (part_010:296-469).                                   *)
(***************************************************************************)
\* amountToDistribute * (PLATFORM_FEE_PERCENT / 100)
PlatformFee(amount) == RMul(amount, RDiv(R(PLATFORM_FEE_PERCENT), R(100)))

\* A split that forgets to take the fee out.
DistributableAmountNoFee(amount) == amount

DistributableAmount(amount) == RSub(amount, PlatformFee(amount))

\* A share that forgets that ownershipPercent is a percentage.
ShareOfUnscaled(distributable, percent) == RMul(distributable, percent)

\* distributableAmount * (ownershipPercent / 100)
ShareOf(distributable, percent) == RMul(distributable, RDiv(percent, R(100)))

CreatorAmount(amount, ownership) ==
    ShareOf(DistributableAmount(amount), ownership.creator.ownershipPercent)

\* distributableAmount - creatorAmount
InvestorAmount(amount, ownership) ==
    RSub(DistributableAmount(amount), CreatorAmount(amount, ownership))

\* The claims array built at lines 342-372: the creator's claim first, then
\* one claim per investor entry with a positive percentage, in order.
PlannedClaims(amount, ownership) ==
    LET creatorAmount == CreatorAmount(amount, ownership)
        creatorClaims ==
            IF RPos(creatorAmount)
            THEN << [userId |-> ownership.creator.userId,
                     type |-> "CREATOR",
                     amount |-> creatorAmount,
                     ownershipPercent |-> ownership.creator.ownershipPercent,
                     shares |-> 0] >>
            ELSE << >>
        HasPercent(inv) == RPos(inv.ownershipPercent)
        eligible == SelectSeq(ownership.investors, HasPercent)
        investorClaims ==
            [k \in DOMAIN eligible |->
                [userId |-> eligible[k].userId,
                 type |-> "INVESTOR",
                 amount |-> ShareOf(DistributableAmount(amount),
                                    eligible[k].ownershipPercent),
                 ownershipPercent |-> eligible[k].ownershipPercent,
                 shares |-> eligible[k].shares]]
    IN  creatorClaims \o investorClaims

\* A distributeRevenue that forgets the status of the deposit.
DepositRejectedMissingOnly(d) == d \notin DOMAIN deposits

\* if (!deposit || deposit.status === 'DISTRIBUTED') throw
DepositRejected(d) ==
    d \notin DOMAIN deposits \/ deposits[d].status = "DISTRIBUTED"

\* A check that lets an amount of zero through.
NoFundsNegativeOnly(amountToDistribute) == RLt(amountToDistribute, Zero)

\* if (amountToDistribute <= 0) throw
NoFunds(amountToDistribute) == ~RPos(amountToDistribute)

\* Lines 300-327: the vault, the deposit and the amount.  depositId = 0
\* stands for an absent depositId (a sweep of the vault's pendingRelease).
DistributeRead(p, o, d, maxDistributions) ==
    /\ pc[p] = "idle"
    /\ LET v == vaults[o]
           amountToDistribute ==
               IF d # 0 /\ d \in DOMAIN deposits
               THEN deposits[d].amount ELSE v.pendingRelease
           args == [o |-> o, d |-> d]
       IN
       IF ~v.exists
       THEN Finish(p, Fail("distributeRevenue", "vault_not_found") @@ args)
       ELSE IF v.status # "ACTIVE"
       THEN Finish(p, Fail("distributeRevenue", "vault_not_active") @@ args)
       ELSE IF d # 0 /\ DepositRejected(d)
       THEN Finish(p, Fail("distributeRevenue", "invalid_or_distributed_deposit")
                      @@ args)
       ELSE IF NoFunds(amountToDistribute)
       THEN Finish(p, Fail("distributeRevenue", "no_funds") @@ args)
       ELSE /\ Len(distributions) < maxDistributions
            /\ Goto(p, "dr_snap", [op |-> "distributeRevenue", o |-> o, d |-> d,
                                   amount |-> amountToDistribute])
    /\ UNCHANGED <<env, now, dbVars, payments>>

\* Lines 329-372: the ownership snapshot and the amounts computed from it.
DistributeSnapshot(p) ==
    /\ pc[p] = "dr_snap"
    /\ Goto(p, "dr_tx", loc[p] @@ [ownership |-> getOwnershipSnapshot(loc[p].o)])
    /\ UNCHANGED <<env, now, dbVars, payments>>

\* A failure that leaves the distribution row of the failed call behind.
DistributeAbortedKeepsRow(p) ==
    /\ Finish(p, Fail("distributeRevenue", "non_finite_amount")
                 @@ [o |-> loc[p].o, d |-> loc[p].d])
    /\ distributions' = Append(distributions,
           [vaultId |-> loc[p].o, depositId |-> loc[p].d,
            totalAmount |-> loc[p].amount, creatorAmount |-> Zero,
            investorAmount |-> Zero, platformFee |-> PlatformFee(loc[p].amount),
            distributionRatio |-> loc[p].ownership, status |-> "PROCESSING"])
    /\ UNCHANGED <<claims, vaults, deposits, audit>>

\* A statement of the transaction throws: prisma.$transaction rolls back
\* and distributeRevenue rethrows.
DistributeAborted(p) ==
    /\ Finish(p, Fail("distributeRevenue", "non_finite_amount")
                 @@ [o |-> loc[p].o, d |-> loc[p].d])
    /\ UNCHANGED <<distributions, claims, vaults, deposits, audit>>

\* Lines 374-469: the transaction.  A snapshot with Infinity or NaN in it
\* cannot be written to the Float columns; the client rejects the first
\* create and the transaction rolls back.
DistributeTx(p) ==
    /\ pc[p] = "dr_tx"
    /\ LET o == loc[p].o
           d == loc[p].d
           amount == loc[p].amount
           ownership == loc[p].ownership
           args == [o |-> o, d |-> d]
       IN
       IF ~ownership.finite
       THEN DistributeAborted(p)
       ELSE
       LET creatorAmount == CreatorAmount(amount, ownership)
           investorAmount == InvestorAmount(amount, ownership)
           planned == PlannedClaims(amount, ownership)
           id == Len(distributions) + 1
       IN
       /\ distributions' = Append(distributions,
              [vaultId |-> o, depositId |-> d, totalAmount |-> amount,
               creatorAmount |-> creatorAmount,
               investorAmount |-> investorAmount,
               platformFee |-> PlatformFee(amount),
               distributionRatio |-> ownership,
               status |-> "COMPLETED"])
       /\ claims' = claims \o
              [k \in DOMAIN planned |->
                  [vaultId |-> o, distributionId |-> id,
                   userId |-> planned[k].userId,
                   claimantType |-> planned[k].type,
                   amount |-> planned[k].amount,
                   shares |-> planned[k].shares,
                   ownershipPercent |-> planned[k].ownershipPercent,
                   status |-> "AVAILABLE",
                   expiresAt |-> now + CLAIM_EXPIRY_DAYS,
                   claimedAt |-> -1]]
       /\ vaults' = [vaults EXCEPT
              ![o].pendingRelease = RSub(@, amount),
              ![o].totalDistributed = RAdd(@, amount),
              ![o].creatorShare = RAdd(@, creatorAmount),
              ![o].investorPool = RAdd(@, investorAmount)]
       /\ deposits' = IF d # 0
                      THEN [deposits EXCEPT ![d].status = "DISTRIBUTED"]
                      ELSE deposits
       /\ audit' = AuditLogCreate(audit,
              AuditEntry(o, "DISTRIBUTION_COMPLETED", "SYSTEM", "", amount, id)
                @@ [claims |-> [k \in DOMAIN planned |->
                                  [userId |-> planned[k].userId,
                                   amount |-> planned[k].amount]]])
       /\ Finish(p, [op |-> "distributeRevenue", ok |-> TRUE, err |-> "",
                     o |-> o, d |-> d, distributionId |-> id])
    /\ UNCHANGED <<env, now, offerings, investments, wallets, ledger, payments>>

(***************************************************************************)
(* processClaim (part_010:474-617).                                        *)
(***************************************************************************)
StatusLower(status) ==
    CASE status = "AVAILABLE" -> "available"
      [] status = "CLAIMED" -> "claimed"
      [] status = "EXPIRED" -> "expired"

\* An expiry test with a window of grace after expiresAt.
ExpiredOnAccessLate(claim, clock) == clock > claim.expiresAt + CLAIM_EXPIRY_DAYS

\* claim.expiresAt && new Date() > claim.expiresAt
ExpiredOnAccess(claim, clock) == clock > claim.expiresAt

\* A processClaim that lets a claimed claim through.
ClaimUnavailableExpiredOnly(claim) == claim.status = "EXPIRED"

\* if (claim.status !== 'AVAILABLE') throw
ClaimUnavailable(claim) == claim.status # "AVAILABLE"

\* A processClaim that pays a claim to whoever asks.
NotOwnerNever(claim, u) == FALSE

\* if (claim.userId !== userId) throw
NotOwner(claim, u) == claim.userId # u

\* Lines 475-498: the claim is read and checked.
ClaimReadChecks(p, c, u) ==
    LET args == [c |-> c, u |-> u] IN
    IF c \notin DOMAIN claims
    THEN Finish(p, Fail("processClaim", "claim_not_found") @@ args)
    ELSE IF NotOwner(claims[c], u)
    THEN Finish(p, Fail("processClaim", "unauthorized") @@ args)
    ELSE IF ClaimUnavailable(claims[c])
    THEN Finish(p, Fail("processClaim", StatusLower(claims[c].status)) @@ args)
    ELSE Goto(p, "pc_exp", [op |-> "processClaim", c |-> c, u |-> u,
                            claim |-> claims[c]])

ClaimRead(p, c, u) ==
    /\ pc[p] = "idle"
    /\ ClaimReadChecks(p, c, u)
    /\ UNCHANGED <<env, now, dbVars, payments>>

\* Line 500: the clock is read and compared with the claim that was read.
ClaimExpiryCheck(p) ==
    /\ pc[p] = "pc_exp"
    /\ IF ExpiredOnAccess(loc[p].claim, now)
       THEN Goto(p, "pc_expire", loc[p])
       ELSE Goto(p, "pc_txread", loc[p])
    /\ UNCHANGED <<env, now, dbVars, payments>>

\* Lines 501-505: the claim row is set to EXPIRED, whatever it holds now.
ClaimExpireWrite(p) ==
    /\ pc[p] = "pc_expire"
    /\ claims' = [claims EXCEPT ![loc[p].c].status = "EXPIRED"]
    /\ Finish(p, Fail("processClaim", "claim_has_expired")
                 @@ [c |-> loc[p].c, u |-> loc[p].u])
    /\ UNCHANGED <<env, now, offerings, investments, vaults, deposits, distributions,
                   wallets, ledger, audit, payments>>

\* Lines 510-523: inside the transaction the wallet is read, or created
\* when the user has none.
ClaimTxRead(p) ==
    /\ pc[p] = "pc_txread"
    /\ Goto(p, "pc_tx", loc[p] @@ [wallet |-> wallets[loc[p].u]])
    /\ UNCHANGED <<env, now, dbVars, payments>>

\* A debit that takes the claim out of both pools.
DebitedBoth(vault, claim) ==
    [vault EXCEPT !.creatorShare = RSub(@, claim.amount),
                  !.investorPool = RSub(@, claim.amount),
                  !.totalBalance = RSub(@, claim.amount)]

\* Lines 574-590: creatorShare or investorPool, and totalBalance.
Debited(vault, claim) ==
    IF claim.claimantType = "CREATOR"
    THEN [vault EXCEPT !.creatorShare = RSub(@, claim.amount),
                       !.totalBalance = RSub(@, claim.amount)]
    ELSE [vault EXCEPT !.investorPool = RSub(@, claim.amount),
                       !.totalBalance = RSub(@, claim.amount)]

\* wallet.balance + claim.amount
NewBalance(wallet, claim) == RAdd(wallet.balance, claim.amount)

\* Lines 526-616: the writes of the transaction and its commit.  A wallet
\* created by this transaction collides with one committed meanwhile
\* (userId is unique) and the transaction rolls back.
ClaimTx(p) ==
    /\ pc[p] = "pc_tx"
    /\ LET c == loc[p].c
           u == loc[p].u
           claim == loc[p].claim
           wallet == loc[p].wallet
           o == claim.vaultId
           newBalance == NewBalance(wallet, claim)
           args == [c |-> c, u |-> u]
       IN
       IF ~wallet.exists /\ wallets[u].exists
       THEN /\ Finish(p, Fail("processClaim", "unique_constraint") @@ args)
            /\ UNCHANGED <<wallets, ledger, vaults, claims, audit>>
       ELSE
       /\ wallets' = [wallets EXCEPT ![u] =
              [exists |-> TRUE, balance |-> newBalance,
               totalEarnings |-> RAdd(wallets[u].totalEarnings, claim.amount)]]
       /\ ledger' = Append(ledger,
              [userId |-> u, type |-> "EARNING", amount |-> claim.amount,
               credit |-> claim.amount, balance |-> newBalance,
               referenceId |-> c])
       /\ vaults' = [vaults EXCEPT ![o] = Debited(@, claim)]
       /\ claims' = [claims EXCEPT ![c].status = "CLAIMED",
                                   ![c].claimedAt = now]
       /\ audit' = AuditLogCreate(audit,
              AuditEntry(o, "CLAIM_PROCESSED", claim.claimantType, u,
                         claim.amount, c))
       /\ Finish(p, [op |-> "processClaim", ok |-> TRUE, err |-> "",
                     c |-> c, u |-> u])
    /\ UNCHANGED <<env, now, offerings, investments, deposits, distributions,
                   payments>>

(***************************************************************************)
(* The claimAll branch of POST /api/dex/claims (part_006:118-162), for the *)
(* user u of the session and an optional offeringId ("" when absent).      *)
(***************************************************************************)
\* userId, status: 'AVAILABLE', expiresAt: { gt: new Date() }, vault
Selected(claim, u, offeringId, clock) ==
    /\ claim.userId = u
    /\ claim.status = "AVAILABLE"
    /\ claim.expiresAt > clock
    /\ (offeringId # "" => claim.vaultId = offeringId)

\* findMany: the ids of the selected claims, in the order of their creation
RECURSIVE SelectClaims(_, _, _, _)
SelectClaims(n, u, offeringId, clock) ==
    IF n = 0 THEN <<>>
    ELSE LET rest == SelectClaims(n - 1, u, offeringId, clock) IN
         IF Selected(claims[n], u, offeringId, clock)
         THEN Append(rest, n) ELSE rest

ClaimAllSelect(p, u, offeringId) ==
    /\ pc[p] = "idle"
    /\ LET selected == SelectClaims(Len(claims), u, offeringId, now) IN
       IF selected = <<>>
       THEN /\ pc' = [pc EXCEPT ![p] = "done"]
            /\ loc' = [loc EXCEPT ![p] =
                   Fail("claimAll", "no_available_claims") @@ [u |-> u]]
       ELSE /\ pc' = [pc EXCEPT ![p] = "ca_loop"]
            /\ loc' = [loc EXCEPT ![p] =
                   [op |-> "claimAll", u |-> u, selected |-> selected,
                    i |-> 1, results |-> <<>>, totalClaimed |-> Zero,
                    ret |-> IdleLoc]]
    /\ UNCHANGED <<env, now, dbVars, payments>>

\* await dexEscrowService.processClaim(claim.id, session.user.id)
ClaimAllCall(p) ==
    /\ pc[p] = "ca_loop"
    /\ ClaimReadChecks(p, loc[p].selected[loc[p].i], loc[p].u)
    /\ UNCHANGED <<env, now, dbVars, payments>>

\* A loop that stops at the first claim that fails.
NextClaimStopOnError(i, n, ok) == IF ok THEN i + 1 ELSE n + 1

\* for (const claim of availableClaims) { try { ... } catch { ... } }
NextClaim(i, n, ok) == i + 1

\* The call returned or threw: its entry of the result list, the total,
\* and the next claim or the response.
ClaimAllReturn(p) ==
    /\ pc[p] = "ca_ret"
    /\ LET f == loc[p]
           c == f.selected[f.i]
           entry == IF f.ret.ok
                    THEN [claimId |-> c, success |-> TRUE,
                          amount |-> claims[c].amount, error |-> ""]
                    ELSE [claimId |-> c, success |-> FALSE,
                          amount |-> Zero, error |-> f.ret.err]
           results == Append(f.results, entry)
           total == IF f.ret.ok THEN RAdd(f.totalClaimed, claims[c].amount)
                    ELSE f.totalClaimed
           next == NextClaim(f.i, Len(f.selected), f.ret.ok)
       IN
       IF next > Len(f.selected)
       THEN /\ pc' = [pc EXCEPT ![p] = "done"]
            /\ loc' = [loc EXCEPT ![p] =
                   [op |-> "claimAll", ok |-> TRUE, err |-> "", u |-> f.u,
                    selected |-> f.selected, results |-> results,
                    totalClaimed |-> total]]
       ELSE /\ pc' = [pc EXCEPT ![p] = "ca_loop"]
            /\ loc' = [loc EXCEPT ![p] =
                   [f EXCEPT !.i = next, !.results = results,
                             !.totalClaimed = total, !.ret = IdleLoc]]
    /\ UNCHANGED <<env, now, dbVars, payments>>

(***************************************************************************)
(* getUserClaims (part_010:621-651): the available claims of a user.       *)
(***************************************************************************)
\* userId, status: 'AVAILABLE', expiresAt: { gt: new Date() }
Listed(claim, u, clock) ==
    /\ claim.userId = u
    /\ claim.status = "AVAILABLE"
    /\ claim.expiresAt > clock

\* orderBy: { createdAt: 'desc' }: the ids of the first n claims that are
\* listed, the latest first
RECURSIVE ListClaims(_, _, _)
ListClaims(n, u, clock) ==
    IF n = 0 THEN <<>>
    ELSE IF Listed(claims[n], u, clock)
         THEN <<n>> \o ListClaims(n - 1, u, clock)
         ELSE ListClaims(n - 1, u, clock)

GetUserClaims(p, u) ==
    /\ pc[p] = "idle"
    /\ Finish(p, [op |-> "getUserClaims", ok |-> TRUE, err |-> "", u |-> u,
                  result |-> ListClaims(Len(claims), u, now)])
    /\ UNCHANGED <<env, now, dbVars, payments>>

(***************************************************************************)
(* GET /api/dex/audit (src/app/api/dex/audit/route.ts): the audit trail of *)
(* a vault, newest first, in pages.  An entry is returned as its index in  *)
(* audit.                                                                  *)
(***************************************************************************)
\* createdAt of the j-th committed entry: a sequence that grows with every
\* commit
CreatedAt(j) == j

\* where: { vaultId: vault.id, action }, the action being optional
AuditWhere(entry, o, action) ==
    entry.vaultId = o /\ (action # "" => entry.action = action)

\* orderBy: { createdAt: 'desc' }: the matching entries among the first n,
\* the latest createdAt first
RECURSIVE OrderedMatches(_, _, _)
OrderedMatches(n, o, action) ==
    IF n = 0 THEN <<>>
    ELSE LET latest == CHOOSE j \in 1..n :
                          \A k \in 1..n : CreatedAt(k) <= CreatedAt(j)
             rest == OrderedMatches(n - 1, o, action)
         IN  IF AuditWhere(audit[latest], o, action)
             THEN <<latest>> \o rest ELSE rest

\* A page that forgets the offset.
PageNoSkip(matches, limit, offset) ==
    SubSeq(matches, 1, IF limit < Len(matches) THEN limit ELSE Len(matches))

\* take: limit, skip: offset
Page(matches, limit, offset) ==
    SubSeq(matches, offset + 1,
           IF offset + limit < Len(matches) THEN offset + limit
           ELSE Len(matches))

\* Lines 38-76: the vault of the offering and the caller's right to read.
AuditQueryStart(p, u, o, action, limit, offset) ==
    /\ pc[p] = "idle"
    /\ LET args == [u |-> u, o |-> o, action |-> action, limit |-> limit,
                    offset |-> offset]
           isCreator == u = Creator
           hasInvestment ==
               \E k \in DOMAIN investments :
                   /\ investments[k].investorId = u
                   /\ investments[k].offeringId = o
                   /\ investments[k].status = "CONFIRMED"
       IN
       IF ~vaults[o].exists
       THEN Finish(p, Fail("auditQuery", "vault_not_found") @@ args)
       ELSE IF ~isCreator /\ ~hasInvestment
       THEN Finish(p, Fail("auditQuery", "access_denied") @@ args)
       ELSE Goto(p, "aq_run", [op |-> "auditQuery", logs |-> <<>>,
                               total |-> 0, gotLogs |-> FALSE,
                               gotTotal |-> FALSE] @@ args)
    /\ UNCHANGED <<env, now, dbVars, payments>>

\* Lines 87-95: Promise.all of two queries, answered in either order.
AuditFindMany(p) ==
    /\ pc[p] = "aq_run" /\ ~loc[p].gotLogs
    /\ LET matches == OrderedMatches(Len(audit), loc[p].o, loc[p].action) IN
       Goto(p, "aq_run",
            [loc[p] EXCEPT !.logs = Page(matches, loc[p].limit, loc[p].offset),
                           !.gotLogs = TRUE])
    /\ UNCHANGED <<env, now, dbVars, payments>>

AuditCount(p) ==
    /\ pc[p] = "aq_run" /\ ~loc[p].gotTotal
    /\ LET matches == OrderedMatches(Len(audit), loc[p].o, loc[p].action) IN
       Goto(p, "aq_run",
            [loc[p] EXCEPT !.total = Len(matches), !.gotTotal = TRUE])
    /\ UNCHANGED <<env, now, dbVars, payments>>

\* Lines 97-113: the response.
AuditRespond(p) ==
    /\ pc[p] = "aq_run" /\ loc[p].gotLogs /\ loc[p].gotTotal
    /\ Finish(p, [op |-> "auditQuery", ok |-> TRUE, err |-> "",
                  u |-> loc[p].u, o |-> loc[p].o, action |-> loc[p].action,
                  limit |-> loc[p].limit, offset |-> loc[p].offset,
                  logs |-> loc[p].logs, total |-> loc[p].total,
                  hasMore |-> loc[p].offset + Len(loc[p].logs) < loc[p].total])
    /\ UNCHANGED <<env, now, dbVars, payments>>

(***************************************************************************)
(* expireOldClaims (part_010:725-737): one updateMany statement.           *)
(***************************************************************************)
\* A sweep that also takes the claims whose window ends at this instant.
SweepExpiresInclusive(claim, clock) ==
    claim.status = "AVAILABLE" /\ claim.expiresAt <= clock

\* status: 'AVAILABLE', expiresAt: { lt: new Date() }
SweepExpires(claim, clock) ==
    claim.status = "AVAILABLE" /\ claim.expiresAt < clock

ExpireOldClaims(p) ==
    /\ pc[p] = "idle"
    /\ LET hit == {c \in DOMAIN claims : SweepExpires(claims[c], now)} IN
       /\ claims' = [c \in DOMAIN claims |->
                       IF c \in hit
                       THEN [claims[c] EXCEPT !.status = "EXPIRED"]
                       ELSE claims[c]]
       /\ Finish(p, [op |-> "expireOldClaims", ok |-> TRUE, err |-> "",
                     count |-> Cardinality(hit)])
    /\ UNCHANGED <<env, now, offerings, investments, vaults, deposits, distributions,
                   wallets, ledger, audit, payments>>

(***************************************************************************)
(* PaymentService.confirmPayment (part_009:212-283), the path without an   *)
(* investmentId: the investment is created CONFIRMED by one statement and  *)
(* the offering's availableShares are decremented by a later one.          *)
(* shares = floor(amount / 100 / pricePerShare) is the input.              *)
(***************************************************************************)
ConfirmPaymentInvestment(o, u, shares, maxInvestments) ==
    /\ Len(investments) < maxInvestments
    /\ investments' = Append(investments,
           [offeringId |-> o, investorId |-> u, shares |-> shares,
            status |-> "CONFIRMED"])
    /\ payments' = Append(payments, [offeringId |-> o, shares |-> shares])
    /\ UNCHANGED <<env, now, offerings, vaults, deposits, distributions, claims,
                   wallets, ledger, audit, pc, loc>>

ConfirmPaymentShares(k) ==
    /\ k \in DOMAIN payments
    /\ LET pay == payments[k] IN
       offerings' = [offerings EXCEPT
           ![pay.offeringId].availableShares = @ - pay.shares]
    /\ payments' = [j \in 1..(Len(payments) - 1) |->
                      IF j < k THEN payments[j] ELSE payments[j + 1]]
    /\ UNCHANGED <<env, now, investments, vaults, deposits, distributions, claims,
                   wallets, ledger, audit, pc, loc>>

(***************************************************************************)
(* Specifications.  B holds the bounds and the inputs of a specification:  *)
(* the numbers of deposits, distributions and investments made, the        *)
(* amounts deposited, the users who claim and the number of ids beyond the *)
(* existing rows that callers pass.                                        *)
(***************************************************************************)
VaultCalls(p, os, B) ==
    \/ \E o \in os : CreateVaultCheck(p, o)
    \/ CreateVaultTx(p)
    \/ \E o \in os, a \in B.amounts : DepositCheck(p, o, a, B.deposits)
    \/ DepositTx(p)
    \/ \E d \in 1..(Len(deposits) + B.unknownIds) : VerifyCheck(p, d)
    \/ VerifyTx(p)

DistributeCalls(p, os, B) ==
    \/ \E o \in os, d \in 0..(Len(deposits) + B.unknownIds) :
          DistributeRead(p, o, d, B.distributions)
    \/ DistributeSnapshot(p)
    \/ DistributeTx(p)

ClaimCalls(p, B) ==
    \/ \E c \in 1..(Len(claims) + B.unknownIds), u \in B.claimants :
          ClaimRead(p, c, u)
    \/ ClaimExpiryCheck(p)
    \/ ClaimTxRead(p)
    \/ ClaimTx(p)

ExpiryCalls(p) ==
    \/ ClaimExpireWrite(p)
    \/ ExpireOldClaims(p)

Payments(os, B) ==
    \/ \E o \in os, u \in Investors, s \in 0..MaxBuyShares :
          ConfirmPaymentInvestment(o, u, s, B.investments)
    \/ \E k \in DOMAIN payments : ConfirmPaymentShares(k)

SpecBounds ==
    [deposits |-> MaxDeposits, distributions |-> MaxDistributions,
     investments |-> MaxInvestments, amounts |-> Amounts, claimants |-> Users,
     unknownIds |-> 1]

\* One caller at a time on one offering: the life cycle of a deposit and of
\* its claims, with the clock.
Next ==
    \/ VaultCalls(1, {"o1"}, SpecBounds)
    \/ DistributeCalls(1, {"o1"}, SpecBounds)
    \/ Return(1)
    \/ ClaimCalls(1, SpecBounds)
    \/ ExpiryCalls(1)
    \/ Payments({"o1"}, SpecBounds)
    \/ Tick(MaxTicks)

Spec == Init /\ [][Next]_vars

OwnBounds ==
    [deposits |-> OwnMaxDeposits, distributions |-> OwnMaxDistributions,
     investments |-> OwnMaxInvestments, amounts |-> Amounts,
     unknownIds |-> 1]

\* One caller, several payments and distributions: the arithmetic of the
\* ownership snapshot and of the split.
NextOwnership ==
    \/ VaultCalls(1, {"o1"}, OwnBounds)
    \/ DistributeCalls(1, {"o1"}, OwnBounds)
    \/ Return(1)
    \/ Payments({"o1"}, OwnBounds)

SpecOwnership == Init /\ [][NextOwnership]_vars

ConcBounds ==
    [deposits |-> ConcMaxDeposits, distributions |-> ConcMaxDistributions,
     amounts |-> Amounts \ {0}, claimants |-> {Creator}, unknownIds |-> 0]

\* Two callers whose steps interleave, on an offering without investors.
NextConc ==
    \/ VaultCalls(1, {"o1"}, ConcBounds)
    \/ \E p \in Procs : DistributeCalls(p, {"o1"}, ConcBounds)
    \/ \E p \in Procs : ClaimCalls(p, ConcBounds)
    \/ \E p \in Procs : Return(p)

SpecConc == InitWith({50}) /\ [][NextConc]_vars

VaultBounds ==
    [deposits |-> VaultMaxDeposits, amounts |-> Amounts \ {0}, unknownIds |-> 0]

\* Two callers of createVault, depositRevenue and verifyDeposit on two
\* offerings.
NextVault ==
    \/ \E p \in Procs : VaultCalls(p, Offerings, VaultBounds)
    \/ \E p \in Procs : Return(p)

SpecVault == InitWith({50}) /\ [][NextVault]_vars

ClaimsBounds ==
    [deposits |-> ClaimsMaxDeposits, distributions |-> ClaimsMaxDistributions,
     investments |-> ClaimsMaxInvestments, amounts |-> Amounts \ {0},
     claimants |-> Users, unknownIds |-> 0]

\* One caller, two distributions: users who hold several claims and claim
\* them one after the other.
NextClaims ==
    \/ VaultCalls(1, {"o1"}, ClaimsBounds)
    \/ DistributeCalls(1, {"o1"}, ClaimsBounds)
    \/ ClaimCalls(1, ClaimsBounds)
    \/ Payments({"o1"}, ClaimsBounds)
    \/ Return(1)

SpecClaims == InitWith({50}) /\ [][NextClaims]_vars

ExpBounds ==
    [deposits |-> ExpMaxDeposits, distributions |-> ExpMaxDistributions,
     amounts |-> Amounts \ {0}, claimants |-> {Creator}, unknownIds |-> 0]

\* Two callers who claim and expire the claims of one distribution while
\* the clock advances.
NextExpiry ==
    \/ VaultCalls(1, {"o1"}, ExpBounds)
    \/ DistributeCalls(1, {"o1"}, ExpBounds)
    \/ \E p \in Procs : ClaimCalls(p, ExpBounds)
    \/ \E p \in Procs : ExpiryCalls(p)
    \/ \E p \in Procs : Return(p)
    \/ Tick(ExpMaxTicks)

SpecExpiry == InitWith({50}) /\ [][NextExpiry]_vars

ClaimAllCalls(p, us, os) ==
    \/ \E u \in us, o \in os \cup {""} : ClaimAllSelect(p, u, o)
    \/ ClaimAllCall(p)
    \/ ClaimAllReturn(p)

AllBounds ==
    [deposits |-> AllMaxDeposits, distributions |-> AllMaxDistributions,
     amounts |-> Amounts \ {0}, claimants |-> {Creator}, unknownIds |-> 0]

\* Caller 1 sets the vault up and claims all claims of the creator; caller
\* 2 claims single claims of the creator; the clock advances.
NextClaimAll ==
    \/ VaultCalls(1, {"o1"}, AllBounds)
    \/ DistributeCalls(1, {"o1"}, AllBounds)
    \/ ClaimAllCalls(1, {Creator}, Offerings)
    \/ ClaimCalls(2, AllBounds)
    \/ GetUserClaims(2, Creator)
    \/ ClaimExpiryCheck(1) \/ ClaimTxRead(1) \/ ClaimTx(1)
    \/ \E p \in Procs : ClaimExpireWrite(p)
    \/ \E p \in Procs : Return(p)
    \/ Tick(AllMaxTicks)

SpecClaimAll == InitWith({50}) /\ [][NextClaimAll]_vars

\* The same calls in deployments with and without ESCROW_SECRET_KEY.
SpecKey == InitEnv({50}, SecretKeys, {}) /\ [][Next]_vars

\* Two callers as in SpecConc, the creator having a wallet from the start.
SpecWallet == InitEnv({50}, SecretKeys \ {""}, {Creator}) /\ [][NextConc]_vars

CrossBounds ==
    [deposits |-> CrossMaxDeposits, distributions |-> CrossMaxDistributions,
     amounts |-> Amounts \ {0}, claimants |-> {Creator}, unknownIds |-> 0]

\* One caller at a time on two offerings: every deposit id is offered to
\* distributeRevenue with every offeringId.
NextCross ==
    \/ VaultCalls(1, Offerings, CrossBounds)
    \/ DistributeCalls(1, Offerings, CrossBounds)
    \/ ClaimCalls(1, CrossBounds)
    \/ Return(1)

SpecCross == InitWith({50}) /\ [][NextCross]_vars

AuditCalls(p, us, os) ==
    \/ \E u \in us, o \in os,
          action \in {"", "DISTRIBUTION_COMPLETED", "CLAIM_PROCESSED"},
          limit \in 1..MaxLimit, offset \in 0..MaxOffset :
          AuditQueryStart(p, u, o, action, limit, offset)
    \/ AuditFindMany(p)
    \/ AuditCount(p)
    \/ AuditRespond(p)

AuditBounds ==
    [deposits |-> AuditMaxDeposits, distributions |-> AuditMaxDistributions,
     amounts |-> Amounts \ {0}, claimants |-> {Creator}, unknownIds |-> 0]

\* One caller who fills the trail of a vault while another reads it.
NextAudit ==
    \/ VaultCalls(1, {"o1"}, AuditBounds)
    \/ DistributeCalls(1, {"o1"}, AuditBounds)
    \/ ClaimCalls(1, AuditBounds)
    \/ AuditCalls(2, {Creator, "i1"}, Offerings)
    \/ \E p \in Procs : Return(p)

SpecAudit == InitWith({50}) /\ [][NextAudit]_vars

(***************************************************************************)
(* Properties.                                                             *)
(***************************************************************************)
DistributionsOf(d) == {k \in DOMAIN distributions : distributions[k].depositId = d}
ClaimsOf(k) == {c \in DOMAIN claims : claims[c].distributionId = k}
CreditsOf(c) == {j \in DOMAIN ledger : ledger[j].referenceId = c}
ProcessedEntriesOf(c) ==
    {j \in DOMAIN audit : audit[j].action = "CLAIM_PROCESSED" /\ audit[j].ref = c}

RECURSIVE SumAmounts(_)
SumAmounts(cs) ==
    IF cs = {} THEN Zero
    ELSE LET c == CHOOSE x \in cs : TRUE
         IN  RAdd(claims[c].amount, SumAmounts(cs \ {c}))

\* p starts a call of op in this step
Starts(p, op) == pc[p] = "idle" /\ pc'[p] # "idle" /\ loc'[p].op = op

\* C1: in every state each vault's totalBalance equals pendingRelease +
\* creatorShare + investorPool.
C1_Conservation ==
    \A o \in Offerings :
        vaults[o].exists =>
            vaults[o].totalBalance =
                RAdd(vaults[o].pendingRelease,
                     RAdd(vaults[o].creatorShare, vaults[o].investorPool))

\* C2: under concurrent distributeRevenue calls no deposit is distributed
\* twice: at most one Distribution exists per deposit.
C2_OneDistributionPerDeposit ==
    \A d \in DOMAIN deposits : Cardinality(DistributionsOf(d)) <= 1

\* C3: under concurrent processClaim calls no claim is paid twice: at most
\* one wallet credit and one CLAIM_PROCESSED vault debit exist per claim.
C3_OneCreditPerClaim ==
    \A c \in DOMAIN claims :
        /\ Cardinality(CreditsOf(c)) <= 1
        /\ Cardinality(ProcessedEntriesOf(c)) <= 1

\* C4: a distributeRevenue call for a deposit that is already DISTRIBUTED
\* fails in its first step and changes no vault, deposit, distribution,
\* claim or audit entry; the deposit was distributed by exactly one
\* Distribution, of the deposit's amount.
C4_DistributedOnce ==
    \A d \in DOMAIN deposits :
        deposits[d].status = "DISTRIBUTED" =>
            /\ Cardinality(DistributionsOf(d)) = 1
            /\ \A k \in DistributionsOf(d) :
                  distributions[k].totalAmount = deposits[d].amount

C4_SecondCallFails(p) ==
    ( /\ Starts(p, "distributeRevenue")
      /\ loc'[p].d \in DOMAIN deposits
      /\ deposits[loc'[p].d].status = "DISTRIBUTED" )
    => /\ pc'[p] = "done"
       /\ ~loc'[p].ok
       /\ UNCHANGED <<vaults, deposits, distributions, claims, audit>>

C4_NoDoubleDistribution ==
    [][C4_DistributedOnce /\ \A p \in Procs : C4_SecondCallFails(p)]_vars

C4_Witness ==
    \E p \in Procs :
        /\ pc[p] = "done"
        /\ loc[p].op = "distributeRevenue"
        /\ ~loc[p].ok
        /\ loc[p].err = "invalid_or_distributed_deposit"
        /\ loc[p].d \in DOMAIN deposits
        /\ deposits[loc[p].d].status = "DISTRIBUTED"
        /\ vaults[loc[p].o].totalDistributed = deposits[loc[p].d].amount

\* C5: a processClaim call by the owner of a claim that is already CLAIMED
\* fails with the status error and changes no wallet, vault, claim, ledger
\* or audit entry; a CLAIMED claim was credited exactly once.
C5_CreditedOnce ==
    \A c \in DOMAIN claims :
        claims[c].status = "CLAIMED" => Cardinality(CreditsOf(c)) = 1

C5_SecondCallFails(p) ==
    ( /\ Starts(p, "processClaim")
      /\ loc'[p].c \in DOMAIN claims
      /\ claims[loc'[p].c].userId = loc'[p].u
      /\ claims[loc'[p].c].status = "CLAIMED" )
    => /\ pc'[p] = "done"
       /\ ~loc'[p].ok
       /\ loc'[p].err = "claimed"
       /\ UNCHANGED <<wallets, vaults, claims, ledger, audit>>

C5_ClaimIdempotence ==
    [][C5_CreditedOnce /\ \A p \in Procs : C5_SecondCallFails(p)]_vars

C5_Witness ==
    \E p \in Procs :
        /\ pc[p] = "done"
        /\ loc[p].op = "processClaim"
        /\ ~loc[p].ok
        /\ loc[p].err = "claimed"
        /\ claims[loc[p].c].status = "CLAIMED"
        /\ wallets[loc[p].u].balance = claims[loc[p].c].amount

\* C6: no claim becomes CLAIMED at a clock value later than its expiresAt.
C6_NoClaimAfterExpiry ==
    \A c \in DOMAIN claims :
        claims[c].status = "CLAIMED" => claims[c].claimedAt <= claims[c].expiresAt

\* C7: for every completed Distribution, platformFee + creatorAmount +
\* investorAmount equals totalAmount.
C7_SplitEqualsTotal ==
    \A k \in DOMAIN distributions :
        distributions[k].status = "COMPLETED" =>
            RAdd(distributions[k].platformFee,
                 RAdd(distributions[k].creatorAmount,
                      distributions[k].investorAmount))
              = distributions[k].totalAmount

C7_Witness ==
    \E k \in DOMAIN distributions :
        /\ distributions[k].status = "COMPLETED"
        /\ RPos(distributions[k].platformFee)
        /\ RPos(distributions[k].creatorAmount)
        /\ RPos(distributions[k].investorAmount)

\* C8: for every Distribution the amounts of its claims add up to
\* creatorAmount + investorAmount, and those of its INVESTOR claims to
\* investorAmount.
C8_ClaimsEqualSplit ==
    \A k \in DOMAIN distributions :
        /\ SumAmounts(ClaimsOf(k)) =
              RAdd(distributions[k].creatorAmount, distributions[k].investorAmount)
        /\ SumAmounts({c \in ClaimsOf(k) : claims[c].claimantType = "INVESTOR"}) =
              distributions[k].investorAmount

\* C9: no Distribution is made while the offering has sold no shares.
C9_NoDistributionWithoutSales ==
    \A k \in DOMAIN distributions :
        distributions[k].distributionRatio.soldShares # 0

\* C10: every ownership snapshot taken with soldShares > 0 gives each
\* CONFIRMED investment the percentage shares / soldShares *
\* sharePercentage, and the creator's and the investors' percentages add
\* up to 100.
SnapshotExact(o, ownership) ==
    /\ \A k \in DOMAIN ownership.investors :
          LET inv == ownership.investors[k] IN
          inv.ownershipPercent[1] * ownership.soldShares =
              inv.shares * offerings[o].sharePercentage * inv.ownershipPercent[2]
    /\ RAdd(ownership.creator.ownershipPercent,
            RSum([k \in DOMAIN ownership.investors |->
                    ownership.investors[k].ownershipPercent])) = R(100)

SnapshotCoversInvestments(o, ownership) ==
    LET invs == ConfirmedInvestments(o) IN
    /\ Len(ownership.investors) = Len(invs)
    /\ \A k \in DOMAIN invs :
          /\ ownership.investors[k].userId = invs[k].investorId
          /\ ownership.investors[k].shares = invs[k].shares

C10_SnapshotStep(p) ==
    (pc[p] = "dr_snap" /\ pc'[p] = "dr_tx" /\ loc'[p].ownership.soldShares > 0)
    => /\ SnapshotExact(loc[p].o, loc'[p].ownership)
       /\ SnapshotCoversInvestments(loc[p].o, loc'[p].ownership)

C10_OwnershipSumsTo100 == [][\A p \in Procs : C10_SnapshotStep(p)]_vars

C10_Witness ==
    \E p \in Procs :
        /\ pc[p] = "dr_tx"
        /\ loc[p].ownership.soldShares > 0
        /\ loc[p].ownership.soldShares < TotalShares
        /\ Len(loc[p].ownership.investors) >= 2

\* The fee and the part of a stakeholder, written out from the amount.
C11_FeeOf(amount) == RDiv(RMul(amount, R(5)), R(100))
C11_PartOf(amount, percent) ==
    RDiv(RMul(RSub(amount, C11_FeeOf(amount)), percent), R(100))

\* The worked example: 8 sold shares at sharePercentage 20, held 5 and 3.
C11_ExampleOwnership ==
    LET p1 == InvestorPercent(5, 8, 20)
        p2 == InvestorPercent(3, 8, 20)
    IN  [creator |-> [userId |-> Creator,
                      ownershipPercent |-> CreatorPercent(<<p1, p2>>)],
         investors |-> << [userId |-> "i1", shares |-> 5, ownershipPercent |-> p1],
                          [userId |-> "i2", shares |-> 3, ownershipPercent |-> p2] >>,
         totalShares |-> 8, soldShares |-> 8, finite |-> TRUE]

C11_Example ==
    LET planned == PlannedClaims(R(100000), C11_ExampleOwnership) IN
    /\ C11_ExampleOwnership.creator.ownershipPercent = R(80)
    /\ PlatformFee(R(100000)) = R(5000)
    /\ [k \in DOMAIN planned |-> planned[k].amount]
          = << R(76000), R(11875), R(7125) >>

\* C11: every distribution of amount A records platformFee = A * 5 / 100,
\* and each of its claims carries the percentage of its stakeholder in the
\* recorded snapshot and the amount (A - platformFee) * percentage / 100;
\* A = 100000 with investors at 12.5% and 7.5% gives 5000, 76000, 11875, 7125.
C11_FeeAndClaimAmounts ==
    /\ C11_Example
    /\ \A k \in DOMAIN distributions :
          LET dist == distributions[k]
              snap == dist.distributionRatio
          IN
          /\ dist.platformFee = C11_FeeOf(dist.totalAmount)
          /\ \A c \in ClaimsOf(k) :
                /\ claims[c].amount =
                      C11_PartOf(dist.totalAmount, claims[c].ownershipPercent)
                /\ IF claims[c].claimantType = "CREATOR"
                   THEN /\ claims[c].userId = snap.creator.userId
                        /\ claims[c].ownershipPercent = snap.creator.ownershipPercent
                   ELSE \E j \in DOMAIN snap.investors :
                           /\ claims[c].userId = snap.investors[j].userId
                           /\ claims[c].shares = snap.investors[j].shares
                           /\ claims[c].ownershipPercent =
                                 snap.investors[j].ownershipPercent
          /\ Cardinality({c \in ClaimsOf(k) : claims[c].claimantType = "CREATOR"})
                = IF RPos(snap.creator.ownershipPercent) THEN 1 ELSE 0
          /\ Cardinality({c \in ClaimsOf(k) : claims[c].claimantType = "INVESTOR"})
                = Cardinality({j \in DOMAIN snap.investors :
                                  RPos(snap.investors[j].ownershipPercent)})

C11_Witness ==
    \E k \in DOMAIN distributions :
        /\ \E c \in ClaimsOf(k) : claims[c].claimantType = "CREATOR"
        /\ Cardinality({c \in ClaimsOf(k) : claims[c].claimantType = "INVESTOR"}) = 2
        /\ \A c \in ClaimsOf(k) : claims[c].ownershipPercent # R(50)

VaultCreatedEntriesOf(o) ==
    {j \in DOMAIN audit : audit[j].action = "VAULT_CREATED" /\ audit[j].vaultId = o}

\* C12: every createVault call returns the vault of the offering and never
\* an error, also when two callers create the vault of one offering at the
\* same time; an existing vault has exactly one VAULT_CREATED audit entry.
C12_CreateVaultIdempotent ==
    /\ \A p \in Procs :
          (pc[p] = "done" /\ loc[p].op = "createVault") =>
              loc[p].ok /\ vaults[loc[p].o].exists
    /\ \A o \in Offerings :
          Cardinality(VaultCreatedEntriesOf(o)) = IF vaults[o].exists THEN 1 ELSE 0

\* C13: a depositRevenue call with amount <= 0, for an offering without a
\* vault, or on a vault that is not ACTIVE fails at once, and creates no
\* deposit, writes no audit entry and changes no vault.
C13_DepositStep(p, o, a) ==
    ( /\ DepositCheck(p, o, a, SpecBounds.deposits)
      /\ (a <= 0 \/ ~vaults[o].exists \/ vaults[o].status # "ACTIVE") )
    => /\ pc'[p] = "done"
       /\ ~loc'[p].ok
       /\ loc'[p].err \in {"amount_not_positive", "vault_not_found",
                           "vault_not_active"}
       /\ UNCHANGED <<deposits, audit, vaults>>

C13_DepositRejected ==
    [][\A p \in Procs, o \in Offerings, a \in SpecBounds.amounts :
          C13_DepositStep(p, o, a)]_vars

C13_Witness ==
    \E p \in Procs :
        /\ pc[p] = "done"
        /\ loc[p].op = "depositRevenue"
        /\ loc[p].err = "amount_not_positive"
        /\ Len(deposits) = 1
        /\ vaults[loc[p].o].totalBalance = deposits[1].amount

\* C14: the commit of a depositRevenue call of amount a adds one PENDING
\* deposit of that amount, adds a to the vault's totalBalance and
\* pendingRelease, appends one DEPOSIT_RECEIVED audit entry, and changes
\* nothing else of the vault, no other vault, no existing deposit, no
\* distribution and no claim.
C14_DepositCommit(p) ==
    (pc[p] = "dp_tx" /\ pc'[p] = "done" /\ loc'[p].ok) =>
    LET o == loc[p].o
        a == loc[p].amount
        n == Len(deposits)
    IN  /\ Len(deposits') = n + 1
        /\ SubSeq(deposits', 1, n) = deposits
        /\ deposits'[n + 1].status = "PENDING"
        /\ deposits'[n + 1].amount = a
        /\ deposits'[n + 1].vaultId = o
        /\ loc'[p].d = n + 1
        /\ vaults'[o].totalBalance[1] * vaults[o].totalBalance[2] * a[2] =
              (vaults[o].totalBalance[1] * a[2] + a[1] * vaults[o].totalBalance[2])
                 * vaults'[o].totalBalance[2]
        /\ vaults'[o].pendingRelease[1] * vaults[o].pendingRelease[2] * a[2] =
              (vaults[o].pendingRelease[1] * a[2] + a[1] * vaults[o].pendingRelease[2])
                 * vaults'[o].pendingRelease[2]
        /\ vaults'[o].totalDistributed = vaults[o].totalDistributed
        /\ vaults'[o].creatorShare = vaults[o].creatorShare
        /\ vaults'[o].investorPool = vaults[o].investorPool
        /\ vaults'[o].status = vaults[o].status
        /\ \A x \in Offerings \ {o} : vaults'[x] = vaults[x]
        /\ Len(audit') = Len(audit) + 1
        /\ SubSeq(audit', 1, Len(audit)) = audit
        /\ audit'[Len(audit')].action = "DEPOSIT_RECEIVED"
        /\ audit'[Len(audit')].amount = a
        /\ UNCHANGED <<distributions, claims, wallets, ledger>>

C14_DepositFrame == [][\A p \in Procs : C14_DepositCommit(p)]_vars

C14_Witness ==
    \E p \in Procs :
        /\ pc[p] = "done"
        /\ loc[p].op = "depositRevenue"
        /\ loc[p].ok
        /\ loc[p].d = 2
        /\ deposits[1].vaultId = deposits[2].vaultId
        /\ vaults[loc[p].o].pendingRelease =
              RAdd(deposits[1].amount, deposits[2].amount)

\* C15: a distributeRevenue call for a deposit that is still PENDING fails
\* in its first step and changes nothing; a deposit becomes DISTRIBUTED only
\* from VERIFIED.
C15_PendingCallFails(p) ==
    ( /\ Starts(p, "distributeRevenue")
      /\ loc'[p].d \in DOMAIN deposits
      /\ deposits[loc'[p].d].status = "PENDING" )
    => /\ pc'[p] = "done"
       /\ ~loc'[p].ok
       /\ UNCHANGED <<vaults, deposits, distributions, claims, audit>>

C15_DistributedFromVerified ==
    \A d \in DOMAIN deposits :
        (deposits[d].status # "DISTRIBUTED" /\ deposits'[d].status = "DISTRIBUTED")
            => deposits[d].status = "VERIFIED"

C15_OnlyVerifiedDistributed ==
    [][/\ \A p \in Procs : C15_PendingCallFails(p)
       /\ C15_DistributedFromVerified]_vars

DepositRank(status) ==
    CASE status = "PENDING" -> 1
      [] status = "VERIFIED" -> 2
      [] status = "DISTRIBUTED" -> 3

\* C16: in every step every deposit keeps its amount, and its status stays
\* or moves forward in the order PENDING, VERIFIED, DISTRIBUTED.
C16_DepositStep ==
    \A d \in DOMAIN deposits :
        /\ d \in DOMAIN deposits'
        /\ deposits'[d].amount = deposits[d].amount
        /\ DepositRank(deposits'[d].status) >= DepositRank(deposits[d].status)

C16_DepositStatusForward == [][C16_DepositStep]_vars

\* C17: every step of a distributeRevenue call other than its successful
\* commit (the checks, the snapshot, a transaction that fails) writes no
\* distribution, claim, audit entry, deposit or vault balance, so a failed
\* call leaves everything as it was before the call.
C17_DistributeStep(p) ==
    ( /\ pc'[p] # pc[p]
      /\ loc'[p].op = "distributeRevenue"
      /\ ~(pc'[p] = "done" /\ loc'[p].ok) )
    => UNCHANGED <<vaults, deposits, distributions, claims, audit, wallets, ledger>>

C17_AllOrNothing == [][\A p \in Procs : C17_DistributeStep(p)]_vars

C17_Witness ==
    \E p \in Procs :
        /\ pc[p] = "done"
        /\ loc[p].op = "distributeRevenue"
        /\ loc[p].err = "non_finite_amount"
        /\ loc[p].d \in DOMAIN deposits
        /\ deposits[loc[p].d].status = "VERIFIED"
        /\ distributions = <<>>
        /\ claims = <<>>
        /\ vaults[loc[p].o].pendingRelease = deposits[loc[p].d].amount

\* C18: a processClaim call fails at once with not-found for an unknown
\* claim, with unauthorized for a claim of another user, and with the
\* claim's status (claimed, expired) for the owner of a claim that is
\* CLAIMED or EXPIRED; it changes no claim, wallet, vault, ledger or audit
\* entry.
C18_ExpectedError(c, u) ==
    IF c \notin DOMAIN claims THEN "claim_not_found"
    ELSE IF claims[c].userId # u THEN "unauthorized"
    ELSE IF claims[c].status = "CLAIMED" THEN "claimed"
    ELSE IF claims[c].status = "EXPIRED" THEN "expired"
    ELSE ""

C18_ClaimCallStep(p) ==
    (Starts(p, "processClaim") /\ C18_ExpectedError(loc'[p].c, loc'[p].u) # "")
    => /\ pc'[p] = "done"
       /\ ~loc'[p].ok
       /\ loc'[p].err = C18_ExpectedError(loc'[p].c, loc'[p].u)
       /\ UNCHANGED <<claims, wallets, vaults, ledger, audit>>

C18_ClaimRejected == [][\A p \in Procs : C18_ClaimCallStep(p)]_vars

C18_Witness ==
    /\ \E p \in Procs :
          /\ pc[p] = "done"
          /\ loc[p].op = "processClaim"
          /\ loc[p].err = "expired"
          /\ claims[loc[p].c].status = "EXPIRED"
          /\ ~wallets[loc[p].u].exists
    /\ \E c \in DOMAIN claims : claims[c].status = "CLAIMED"

\* C19: a processClaim call by the owner of an AVAILABLE claim whose
\* expiresAt is before the clock passes the status check without writing,
\* finds the claim expired when it reads the clock (which never goes back),
\* and then sets the claim to EXPIRED and fails with the expired error,
\* changing no wallet, vault, ledger or audit entry.
C19_CallOnExpired(p) ==
    ( /\ Starts(p, "processClaim")
      /\ loc'[p].c \in DOMAIN claims
      /\ claims[loc'[p].c].userId = loc'[p].u
      /\ claims[loc'[p].c].status = "AVAILABLE"
      /\ claims[loc'[p].c].expiresAt < now )
    => /\ pc'[p] = "pc_exp"
       /\ loc'[p].claim = claims[loc'[p].c]
       /\ UNCHANGED <<claims, wallets, vaults, ledger, audit>>

C19_ClockRead(p) ==
    (pc[p] = "pc_exp" /\ pc'[p] # "pc_exp" /\ loc[p].claim.expiresAt < now)
    => /\ pc'[p] = "pc_expire"
       /\ UNCHANGED <<claims, wallets, vaults, ledger, audit>>

C19_ExpireWrite(p) ==
    (pc[p] = "pc_expire" /\ pc'[p] # "pc_expire")
    => /\ pc'[p] = "done"
       /\ ~loc'[p].ok
       /\ loc'[p].err = "claim_has_expired"
       /\ claims'[loc[p].c].status = "EXPIRED"
       /\ \A c \in DOMAIN claims \ {loc[p].c} : claims'[c] = claims[c]
       /\ UNCHANGED <<wallets, vaults, ledger, audit>>

C19_LazyExpiry ==
    [][/\ now' >= now
       /\ \A p \in Procs :
             C19_CallOnExpired(p) /\ C19_ClockRead(p) /\ C19_ExpireWrite(p)]_vars

C19_Witness ==
    \E p \in Procs :
        /\ pc[p] = "done"
        /\ loc[p].op = "processClaim"
        /\ loc[p].err = "claim_has_expired"
        /\ claims[loc[p].c].status = "EXPIRED"
        /\ claims[loc[p].c].expiresAt < now
        /\ ~wallets[loc[p].u].exists
        /\ RPos(vaults[claims[loc[p].c].vaultId].creatorShare)

\* x + a = y, for rationals
C20_Plus(x, a, y) == (x[1] * a[2] + a[1] * x[2]) * y[2] = y[1] * x[2] * a[2]

\* C20: the commit of a successful processClaim on a claim of amount a adds
\* a to the claimant's wallet balance, takes a from the vault's totalBalance
\* and from creatorShare (a CREATOR claim) or investorPool (any other), never
\* from both, sets the claim to CLAIMED, appends one CLAIM_PROCESSED audit
\* entry, and leaves pendingRelease, totalDistributed, the other vaults, the
\* other claims and the other users' wallets unchanged.
C20_ClaimCommit(p) ==
    (pc[p] = "pc_tx" /\ pc'[p] = "done" /\ loc'[p].ok) =>
    LET c == loc[p].c
        u == loc[p].u
        a == claims[c].amount
        o == claims[c].vaultId
        isCreator == claims[c].claimantType = "CREATOR"
    IN  /\ wallets'[u].exists
        /\ C20_Plus(wallets[u].balance, a, wallets'[u].balance)
        /\ \A x \in Users \ {u} : wallets'[x] = wallets[x]
        /\ C20_Plus(vaults'[o].totalBalance, a, vaults[o].totalBalance)
        /\ IF isCreator
           THEN /\ C20_Plus(vaults'[o].creatorShare, a, vaults[o].creatorShare)
                /\ vaults'[o].investorPool = vaults[o].investorPool
           ELSE /\ C20_Plus(vaults'[o].investorPool, a, vaults[o].investorPool)
                /\ vaults'[o].creatorShare = vaults[o].creatorShare
        /\ vaults'[o].pendingRelease = vaults[o].pendingRelease
        /\ vaults'[o].totalDistributed = vaults[o].totalDistributed
        /\ \A x \in Offerings \ {o} : vaults'[x] = vaults[x]
        /\ claims[c].status = "AVAILABLE"
        /\ claims'[c].status = "CLAIMED"
        /\ claims'[c].amount = a
        /\ DOMAIN claims' = DOMAIN claims
        /\ \A x \in DOMAIN claims \ {c} : claims'[x] = claims[x]
        /\ Len(audit') = Len(audit) + 1
        /\ SubSeq(audit', 1, Len(audit)) = audit
        /\ audit'[Len(audit')].action = "CLAIM_PROCESSED"
        /\ audit'[Len(audit')].amount = a
        /\ UNCHANGED <<deposits, distributions>>

C21_ClaimStep ==
    \A c \in DOMAIN claims :
        /\ c \in DOMAIN claims'
        /\ claims'[c].amount = claims[c].amount
        /\ claims[c].status = "CLAIMED" => claims'[c].status = "CLAIMED"
        /\ claims[c].status = "EXPIRED" => claims'[c].status = "EXPIRED"

C21_ClaimStatusTerminal == [][C21_ClaimStep]_vars

RECURSIVE SumSuccesses(_)
SumSuccesses(results) ==
    IF results = <<>> THEN Zero
    ELSE IF results[1].success
         THEN RAdd(results[1].amount, SumSuccesses(Tail(results)))
         ELSE SumSuccesses(Tail(results))

ClaimAllDone(p) == pc[p] = "done" /\ loc[p].op = "claimAll" /\ loc[p].ok

\* C22: a claimAll that answers has called processClaim for every selected
\* claim, whatever the outcome of the others: its result list has one entry
\* per selected claim, in order, a success entry carries the amount of a claim
\* whose payment is in the audit trail, a failure entry carries the error, and totalClaimed
\* is the sum of the amounts of the success entries.  Every selected claim
\* is a claim of the user.
C22_ClaimAllIndependent ==
    \A p \in Procs : ClaimAllDone(p) =>
        LET f == loc[p] IN
        /\ Len(f.results) = Len(f.selected)
        /\ \A k \in DOMAIN f.results :
             LET e == f.results[k] IN
             /\ e.claimId = f.selected[k]
             /\ claims[e.claimId].userId = f.u
             /\ e.success => /\ e.amount = claims[e.claimId].amount
                             /\ ProcessedEntriesOf(e.claimId) # {}
             /\ ~e.success => e.error # ""
        /\ f.totalClaimed = SumSuccesses(f.results)

\* a claimAll over two claims whose first claim failed and whose second
\* claim was paid
C22_Witness ==
    \E p \in Procs : /\ ClaimAllDone(p)
                     /\ Len(loc[p].results) = 2
                     /\ ~loc[p].results[1].success
                     /\ loc[p].results[2].success
                     /\ loc[p].totalClaimed = claims[loc[p].selected[2]].amount

\* the records of the vaults: what the audit trail accounts for
vaultState == <<vaults, deposits, distributions, claims>>

\* C23: a step changes a record of a vault (the vault, a deposit, a
\* distribution, a claim, the EXPIRED mark of a claim included) exactly when
\* it appends one entry to the audit trail: no committed change without its
\* entry in the same step, no entry without a committed change.
C23_AuditStep ==
    /\ vaultState' # vaultState =>
         /\ Len(audit') = Len(audit) + 1
         /\ SubSeq(audit', 1, Len(audit)) = audit
    /\ audit' # audit => vaultState' # vaultState
C23_AuditMatchesState == [][C23_AuditStep]_vars

\* C24: no audit entry is signed with the built-in default key, and a
\* deployment without a configured key commits nothing: no audit entry, no
\* vault, no deposit, no distribution, no claim.
C24_NoDefaultKey ==
    /\ \A j \in DOMAIN audit : audit[j].signature.key # "escrow-secret"
    /\ env.ESCROW_SECRET_KEY = "" =>
         /\ audit = <<>>
         /\ \A o \in Offerings : ~vaults[o].exists
         /\ deposits = <<>> /\ distributions = <<>> /\ claims = <<>>

\* C25: in every reachable state the five amounts of every vault are >= 0.
C25_NonNegative ==
    \A o \in Offerings :
        /\ RLe(Zero, vaults[o].totalBalance)
        /\ RLe(Zero, vaults[o].pendingRelease)
        /\ RLe(Zero, vaults[o].totalDistributed)
        /\ RLe(Zero, vaults[o].creatorShare)
        /\ RLe(Zero, vaults[o].investorPool)

\* the deposits of vault o that are not DISTRIBUTED
OpenDepositsOf(o) ==
    {d \in DOMAIN deposits :
        deposits[d].vaultId = o /\ deposits[d].status # "DISTRIBUTED"}

RECURSIVE SumDeposits(_)
SumDeposits(ds) ==
    IF ds = {} THEN Zero
    ELSE LET d == CHOOSE x \in ds : TRUE
         IN  RAdd(deposits[d].amount, SumDeposits(ds \ {d}))

\* C26: in every reachable state the pendingRelease of a vault is the sum
\* of the amounts of its deposits that are PENDING or VERIFIED.
C26_PendingIsOpenDeposits ==
    \A o \in Offerings :
        vaults[o].pendingRelease = SumDeposits(OpenDepositsOf(o))

\* the claims of vault o for a kind of claimant that have not been paid
UnclaimedOf(o, claimantType) ==
    {c \in DOMAIN claims : /\ claims[c].vaultId = o
                           /\ claims[c].claimantType = claimantType
                           /\ claims[c].status # "CLAIMED"}

\* C27: in every reachable state creatorShare is the sum of the vault's
\* CREATOR claims that are AVAILABLE or EXPIRED, and investorPool the sum of
\* its INVESTOR claims that are AVAILABLE or EXPIRED.
C27_SharesAreUnclaimed ==
    \A o \in Offerings :
        /\ vaults[o].creatorShare = SumAmounts(UnclaimedOf(o, "CREATOR"))
        /\ vaults[o].investorPool = SumAmounts(UnclaimedOf(o, "INVESTOR"))

\* the claims of user u that have been paid
ClaimedBy(u) ==
    {c \in DOMAIN claims : claims[c].userId = u /\ claims[c].status = "CLAIMED"}

\* C28: in every reachable state in which no claim of the user has been
\* paid twice, the balance of the user's wallet (0 at the start) is the sum
\* of the amounts of the user's CLAIMED claims: processClaim calls for
\* different claims of one user that all succeed raise the balance by all
\* their amounts.
C28_WalletIsClaimedSum ==
    \A u \in Users :
        (\A c \in ClaimedBy(u) : Cardinality(ProcessedEntriesOf(c)) = 1)
        => wallets[u].balance = SumAmounts(ClaimedBy(u))

DepositsInto(o) == {d \in DOMAIN deposits : deposits[d].vaultId = o}
ClaimedOf(o) ==
    {c \in DOMAIN claims : claims[c].vaultId = o /\ claims[c].status = "CLAIMED"}

\* C29: in every reachable state the totalBalance of a vault is the sum of
\* the deposits made into it minus the sum of its CLAIMED claims.
C29_BalanceIsDepositsMinusClaimed ==
    \A o \in Offerings :
        vaults[o].totalBalance =
            RSub(SumDeposits(DepositsInto(o)), SumAmounts(ClaimedOf(o)))

\* a row of vault o is written or created by the step
RowTouched(rows, rows2, o) ==
    \E k \in DOMAIN rows2 :
        /\ rows2[k].vaultId = o
        /\ (k \notin DOMAIN rows \/ rows2[k] # rows[k])

Touched(o) ==
    \/ vaults'[o] # vaults[o]
    \/ RowTouched(deposits, deposits', o)
    \/ RowTouched(distributions, distributions', o)
    \/ RowTouched(claims, claims', o)
    \/ RowTouched(audit, audit', o)

\* C30: every step of an operation writes the records (vault, deposits,
\* distributions, claims, audit entries) of at most one vault; a
\* distributeRevenue for one offering never marks a deposit of another
\* vault.
C30_OneVaultStep == Cardinality({o \in Offerings : Touched(o)}) <= 1
C30_VaultFrame == [][C30_OneVaultStep]_vars

\* the claims created by the step
NewClaims == DOMAIN claims' \ DOMAIN claims

\* C31: a step that creates claims creates at most one claim per party (one
\* CREATOR claim, one INVESTOR claim per user), each with a positive amount
\* and a positive ownershipPercent, AVAILABLE, and all expiring 90 days
\* after the step.
C31_ClaimStep ==
    /\ \A c \in NewClaims :
         /\ RPos(claims'[c].amount)
         /\ RPos(claims'[c].ownershipPercent)
         /\ claims'[c].status = "AVAILABLE"
         /\ claims'[c].expiresAt = now + 90
    /\ \A c1, c2 \in NewClaims :
         (/\ claims'[c1].userId = claims'[c2].userId
          /\ claims'[c1].claimantType = claims'[c2].claimantType) => c1 = c2
C31_OneClaimPerParty == [][C31_ClaimStep]_vars

InUnit(x, hi) == RLe(Zero, x) /\ RLe(x, hi)

\* C32: in every recorded distribution the creator's and every investor's
\* ownershipPercent lie in [0, 100], and creatorAmount and every claim of
\* the distribution lie between 0 and the distributable amount.
C32_PercentagesInRange ==
    \A k \in DOMAIN distributions :
        LET dist == distributions[k]
            distributable == RSub(dist.totalAmount, dist.platformFee)
        IN
        /\ InUnit(dist.distributionRatio.creator.ownershipPercent, R(100))
        /\ \A j \in DOMAIN dist.distributionRatio.investors :
             InUnit(dist.distributionRatio.investors[j].ownershipPercent, R(100))
        /\ InUnit(dist.creatorAmount, distributable)
        /\ \A c \in ClaimsOf(k) : InUnit(claims[c].amount, distributable)

\* C33: a sweep (distributeRevenue without depositId) of a vault whose
\* pendingRelease is <= 0 fails with the no-funds error and changes no
\* record; a sweep that commits, no other call having run since it read the
\* vault, records a distribution of exactly the pendingRelease, which is
\* positive, adds it to totalDistributed and leaves pendingRelease at 0.
C33_SweepStep ==
    \A p \in Procs :
        /\ (/\ pc[p] = "idle" /\ pc'[p] # "idle"
            /\ loc'[p].op = "distributeRevenue" /\ loc'[p].d = 0
            /\ vaults[loc'[p].o].exists
            /\ ~RPos(vaults[loc'[p].o].pendingRelease))
           => /\ pc'[p] = "done"
              /\ ~loc'[p].ok /\ loc'[p].err = "no_funds"
              /\ UNCHANGED dbVars
        /\ (/\ pc[p] = "dr_tx" /\ loc[p].d = 0
            /\ pc'[p] = "done" /\ loc'[p].ok)
           => LET o == loc[p].o
                  pending == vaults[o].pendingRelease
              IN /\ RPos(pending)
                 /\ Len(distributions') = Len(distributions) + 1
                 /\ distributions'[Len(distributions')].totalAmount = pending
                 /\ distributions'[Len(distributions')].depositId = 0
                 /\ vaults'[o].pendingRelease = Zero
                 /\ vaults'[o].totalDistributed =
                        RAdd(vaults[o].totalDistributed, pending)
                 /\ deposits' = deposits
C33_Sweep == [][C33_SweepStep]_vars

\* a sweep was refused for lack of funds after an earlier sweep had
\* distributed the vault's pendingRelease
C33_Witness ==
    \E p \in Procs :
        /\ pc[p] = "done" /\ loc[p].op = "distributeRevenue"
        /\ loc[p].d = 0 /\ ~loc[p].ok /\ loc[p].err = "no_funds"
        /\ \E k \in DOMAIN distributions :
              /\ distributions[k].depositId = 0
              /\ distributions[k].vaultId = loc[p].o
              /\ RPos(distributions[k].totalAmount)
        /\ ~RPos(vaults[loc[p].o].pendingRelease)

VerifiedEntriesOf(d) ==
    {j \in DOMAIN audit : audit[j].action = "DEPOSIT_VERIFIED" /\ audit[j].ref = d}

\* C34: a verifyDeposit call on a missing deposit or on a deposit that is
\* not PENDING fails and changes no record; a verifyDeposit that commits
\* turns a PENDING deposit VERIFIED, appends one DEPOSIT_VERIFIED audit entry
\* for it and changes nothing else, no vault balance in particular.
C34_VerifyStep ==
    \A p \in Procs :
        /\ (/\ pc[p] = "idle" /\ pc'[p] # "idle"
            /\ loc'[p].op = "verifyDeposit")
           => LET d == loc'[p].d IN
              /\ UNCHANGED dbVars
              /\ IF d \in DOMAIN deposits /\ deposits[d].status = "PENDING"
                 THEN pc'[p] = "vd_tx"
                 ELSE pc'[p] = "done" /\ ~loc'[p].ok
        /\ (pc[p] = "vd_tx" /\ pc'[p] # "vd_tx")
           => LET d == loc[p].d IN
              /\ loc'[p].ok
              /\ deposits[d].status = "PENDING"
              /\ deposits' = [deposits EXCEPT ![d].status = "VERIFIED"]
              /\ Len(audit') = Len(audit) + 1
              /\ SubSeq(audit', 1, Len(audit)) = audit
              /\ audit'[Len(audit')].action = "DEPOSIT_VERIFIED"
              /\ audit'[Len(audit')].ref = d
              /\ audit'[Len(audit')].vaultId = deposits[d].vaultId
              /\ UNCHANGED <<vaults, distributions, claims, wallets, ledger,
                             offerings, investments>>
C34_VerifyDeposit == [][C34_VerifyStep]_vars

\* the claims that are AVAILABLE and whose expiresAt is before the clock
Overdue(cs, clock) ==
    {c \in DOMAIN cs : cs[c].status = "AVAILABLE" /\ cs[c].expiresAt < clock}

\* C35: expireOldClaims sets EXPIRED exactly the AVAILABLE claims whose
\* expiresAt is before the clock and returns their number; every other
\* claim, every field but the status, and every vault, wallet, deposit and
\* distribution is left as it was; afterwards no claim is left for a second
\* run at the same clock, and a run that finds none changes nothing.
C35_SweepStep ==
    \A p \in Procs :
        (/\ pc[p] = "idle" /\ pc'[p] # "idle"
         /\ loc'[p].op = "expireOldClaims")
        => /\ loc'[p].ok
           /\ loc'[p].count = Cardinality(Overdue(claims, now))
           /\ DOMAIN claims' = DOMAIN claims
           /\ \A c \in DOMAIN claims :
                claims'[c] = IF c \in Overdue(claims, now)
                             THEN [claims[c] EXCEPT !.status = "EXPIRED"]
                             ELSE claims[c]
           /\ Overdue(claims', now') = {}
           /\ (loc'[p].count = 0 => claims' = claims)
           /\ UNCHANGED <<vaults, deposits, distributions, wallets, ledger>>
C35_ExpireOldClaims == [][C35_SweepStep]_vars

\* a run of expireOldClaims has expired a claim, next to a claim it left
\* alone
C35_Witness ==
    \E p \in Procs :
        /\ pc[p] = "done" /\ loc[p].op = "expireOldClaims"
        /\ loc[p].count >= 1
        /\ \E c \in DOMAIN claims : claims[c].status = "EXPIRED"
        /\ \E c \in DOMAIN claims : claims[c].status # "EXPIRED"

\* a run of expireOldClaims whose result caller p still holds has expired
\* every claim whose expiresAt is before the clock: the count it returned
\* is the number of those claims
SweptAllOverdue(p) ==
    /\ pc[p] = "done" /\ loc[p].op = "expireOldClaims"
    /\ loc[p].count >= 1
    /\ loc[p].count =
          Cardinality({c \in DOMAIN claims : claims[c].expiresAt < now})

\* C36: once expireOldClaims has expired a claim, a processClaim that its
\* owner starts on it fails with the error of an expired claim ('Claim is
\* expired' or 'Claim has expired') and changes neither wallets nor vaults.
C36_CallAfterSweep ==
    \A p, q \in Procs :
        (/\ SweptAllOverdue(p)
         /\ pc[q] = "idle" /\ pc'[q] # "idle"
         /\ loc'[q].op = "processClaim"
         /\ loc'[q].c \in DOMAIN claims
         /\ claims[loc'[q].c].expiresAt < now
         /\ loc'[q].u = claims[loc'[q].c].userId)
        => /\ pc'[q] = "done" /\ ~loc'[q].ok
           /\ loc'[q].err \in {"expired", "claim_has_expired"}
           /\ UNCHANGED <<wallets, vaults, ledger>>
C36_ExpiredStaysRejected == [][C36_CallAfterSweep]_vars

\* C37: for every AVAILABLE claim and the clock of every reachable state,
\* the listing of getUserClaims and the selection of claimAll take the claim
\* exactly when processClaim would not reject it as expired, and
\* expireOldClaims expires it exactly when processClaim would.
C37_ExpiryTestsAgree ==
    \A c \in DOMAIN claims :
        claims[c].status = "AVAILABLE" =>
            LET claim == claims[c] IN
            /\ Listed(claim, claim.userId, now) <=> ~ExpiredOnAccess(claim, now)
            /\ Selected(claim, claim.userId, "", now)
                  <=> ~ExpiredOnAccess(claim, now)
            /\ SweepExpires(claim, now) <=> ExpiredOnAccess(claim, now)

\* C38: the distribution that commits records as distributionRatio the
\* ownership of its offering as of the commit (the CONFIRMED investments and
\* the share counts of the state it commits in) and creates the claims of
\* that ownership; no step changes the amount, the owner or the
\* ownershipPercent of a claim that exists.
C38_CommitStep ==
    /\ \A p \in Procs :
         (pc[p] = "dr_tx" /\ pc'[p] = "done" /\ loc'[p].ok)
         => LET o == loc[p].o
                ownership == getOwnershipSnapshot(o)
                planned == PlannedClaims(loc[p].amount, ownership)
                id == Len(distributions')
            IN /\ distributions'[id].distributionRatio = ownership
               /\ Len(claims') = Len(claims) + Len(planned)
               /\ \A k \in DOMAIN planned :
                    LET claim == claims'[Len(claims) + k] IN
                    /\ claim.userId = planned[k].userId
                    /\ claim.amount = planned[k].amount
                    /\ claim.ownershipPercent = planned[k].ownershipPercent
    /\ \A c \in DOMAIN claims :
         /\ c \in DOMAIN claims'
         /\ claims'[c].amount = claims[c].amount
         /\ claims'[c].userId = claims[c].userId
         /\ claims'[c].ownershipPercent = claims[c].ownershipPercent
C38_OwnershipAtCommit == [][C38_CommitStep]_vars

AuditOf(log, o) ==
    LET OfVault(e) == e.vaultId = o IN SelectSeq(log, OfVault)

\* C39: in every step the audit entries of every vault after the step are
\* those before it, unchanged and in the same order, followed by the
\* entries the step wrote.
C39_AuditStep ==
    \A o \in Offerings :
        LET before == AuditOf(audit, o)
            after == AuditOf(audit', o)
        IN /\ Len(after) >= Len(before)
           /\ SubSeq(after, 1, Len(before)) = before
C39_AuditAppendOnly == [][C39_AuditStep]_vars

\* the trail of a vault holds its creation, a deposit, a distribution and
\* a paid claim, in that order
C39_Witness ==
    \E o \in Offerings :
        LET log == AuditOf(audit, o) IN
        /\ Len(log) >= 4
        /\ log[1].action = "VAULT_CREATED"
        /\ log[2].action = "DEPOSIT_RECEIVED"
        /\ log[Len(log) - 1].action = "DISTRIBUTION_COMPLETED"
        /\ log[Len(log)].action = "CLAIM_PROCESSED"

\* the entries of log that a query for vault o and an optional action is
\* about, as indices in commit order
Matching(log, o, action) ==
    {j \in 1..Len(log) :
        log[j].vaultId = o /\ (action = "" \/ log[j].action = action)}

\* the number of matching entries committed no earlier than entry j
Rank(log, o, action, j) ==
    Cardinality({k \in Matching(log, o, action) : k >= j})

\* C40: the page an audit query reads lists matching entries only, an
\* entry committed later before one committed earlier, and holds exactly
\* the matching entries whose rank from the newest lies in
\* offset+1 .. offset+limit (so at most limit of them); the total it
\* reads is the number of all matching entries.
C40_QueryStep ==
    \A p \in Procs :
        pc[p] = "aq_run" =>
            LET q == loc[p]
                all == Matching(audit, q.o, q.action)
                logs == loc'[p].logs
            IN
            /\ (~q.gotLogs /\ pc'[p] = "aq_run" /\ loc'[p].gotLogs) =>
                  /\ Len(logs) <= q.limit
                  /\ \A i, k \in 1..Len(logs) : i < k => logs[i] > logs[k]
                  /\ {logs[i] : i \in 1..Len(logs)} =
                         {j \in all :
                             /\ Rank(audit, q.o, q.action, j) > q.offset
                             /\ Rank(audit, q.o, q.action, j)
                                    <= q.offset + q.limit}
            /\ (~q.gotTotal /\ pc'[p] = "aq_run" /\ loc'[p].gotTotal) =>
                  loc'[p].total = Cardinality(all)
            /\ pc'[p] = "done" =>
                  /\ loc'[p].logs = q.logs
                  /\ loc'[p].total = q.total
====
